---- MODULE Spec2Model ----
(***************************************************************************)
(* Model of nfsstats.Parse (src/nfsstats.go): the line-oriented parser of  *)
(* /proc/self/mountstats.  One action per iteration of each of the three   *)
(* scanner loops (Parse, parseStatistics, parseOperations), all sharing    *)
(* one bufio.Scanner.                                                      *)
(*                                                                         *)
(* A line is a string; strings.Fields, strings.TrimSuffix and              *)
(* strconv.ParseUint are computed character by character.  A uint64 is     *)
(* held as its canonical decimal numeral (a string of digits without       *)
(* leading zeros, "0" for zero), since 2^64 exceeds the integers of the    *)
(* model checker; the comparisons ParseUint makes are done on numerals.    *)
(***************************************************************************)
EXTENDS Integers, Sequences, FiniteSets, TLC

VARIABLES
    input,       \* the lines the reader holds, in order
    scanner,     \* bufio.Scanner: [pos: lines delivered, state: open/eof/err]
    pc,          \* the loop that runs next, or "done" / "panic"
    nfsMounts,   \* Parse: the records appended so far
    nfsMount,    \* Parse: the record of the header being handled
    statistics,  \* parseStatistics: the Statistics being filled
    retMounts,   \* first return value of Parse
    retErr,      \* second return value of Parse
    readBy       \* history: readBy[i] is the loop that read line i and the
                 \* fields it split the line into

vars == <<input, scanner, pc, nfsMounts, nfsMount, statistics,
          retMounts, retErr, readBy>>

(***************************************************************************)
(* Bounds of the model.                                                    *)
(***************************************************************************)
MaxLines == 4
MaxBlock == 2
MaxRows == 3

(***************************************************************************)
(* strings.Fields: split around runs of white space.                       *)
(***************************************************************************)
Space == {" ", "\t"}

Fields(s) ==
    LET NonSpace(i) == SubSeq(s, i, i) \notin Space
        \* where a field starts, and where the field that starts at i ends
        starts == {i \in 1..Len(s) : NonSpace(i) /\ (i = 1 \/ ~NonSpace(i - 1))}
        EndOf(i) == CHOOSE e \in i..Len(s) :
                        /\ \A k \in i..e : NonSpace(k)
                        /\ e = Len(s) \/ ~NonSpace(e + 1)
        Nth(k) == CHOOSE i \in starts : Cardinality({j \in starts : j < i}) = k - 1
    IN  [k \in 1..Cardinality(starts) |-> SubSeq(s, Nth(k), EndOf(Nth(k)))]

(***************************************************************************)
(* strings.TrimSuffix(s, ":"): drop one trailing colon.                    *)
(***************************************************************************)
TrimSuffix(s) ==
    IF Len(s) >= 1 /\ SubSeq(s, Len(s), Len(s)) = ":"
    THEN SubSeq(s, 1, Len(s) - 1)
    ELSE s

(***************************************************************************)
(* strconv.ParseUint(s, 10, 64), error discarded: the value returned.      *)
(* A byte that is no decimal digit returns 0 (syntax error); a value that  *)
(* leaves the range returns the largest uint64 (range error); the bytes    *)
(* are examined left to right.                                             *)
(***************************************************************************)
MaxUint64 == "18446744073709551615"
Cutoff == "1844674407370955162"

DigitVal == [c \in {"0", "1", "2", "3", "4", "5", "6", "7", "8", "9"} |->
                CASE c = "0" -> 0 [] c = "1" -> 1 [] c = "2" -> 2 [] c = "3" -> 3
                  [] c = "4" -> 4 [] c = "5" -> 5 [] c = "6" -> 6 [] c = "7" -> 7
                  [] c = "8" -> 8 [] c = "9" -> 9]

\* a < b for two canonical numerals
NumLess(a, b) ==
    \/ Len(a) < Len(b)
    \/ /\ Len(a) = Len(b)
       /\ \E k \in 1..Len(a) :
            /\ SubSeq(a, 1, k - 1) = SubSeq(b, 1, k - 1)
            /\ DigitVal[SubSeq(a, k, k)] < DigitVal[SubSeq(b, k, k)]

RECURSIVE ParseUintFrom(_, _, _)
ParseUintFrom(s, i, n) ==
    IF i > Len(s)
    THEN n
    ELSE LET c == SubSeq(s, i, i)
         IN  IF c \notin DOMAIN DigitVal
             THEN "0"
             ELSE IF ~NumLess(n, Cutoff)
                  THEN MaxUint64
                  ELSE LET n1 == IF n = "0" THEN c ELSE n \o c
                       IN  IF NumLess(MaxUint64, n1)
                           THEN MaxUint64
                           ELSE ParseUintFrom(s, i + 1, n1)

ParseUint(s) == ParseUintFrom(s, 1, "0")

\* makeUint64: every element converted, failures ignored
makeUint64(fields) == [k \in 1..Len(fields) |-> ParseUint(fields[k])]

(***************************************************************************)
(* The zero values of the Go structs and NewStatistics.                    *)
(***************************************************************************)
ByteFields == <<"NormalReadBytes", "NormalWriteBytes", "DirectReadBytes",
                "DirectWriteBytes", "ServerReadBytes", "ServerWriteBytes",
                "ReadPages", "WritePages">>

EventFields == <<"InodeRevalidate", "DentryRevalidate", "DataInvalidate",
                 "AttrInvalidate", "VFSOpen", "VFSLookup", "VFSAccess",
                 "VFSUpdatePage", "VFSReadPage", "VFSReadPages", "VFSWritePage",
                 "VFSWritePages", "VFSGetDents", "VFSSetAttr", "VFSFlush",
                 "VFSSync", "VFSLock", "VFSRelease", "CongestionWait",
                 "SetAttrTrunc", "ExtendWrite", "SillyRename", "ShortRead",
                 "ShortWrite", "Delay", "PNFSRead", "PNFSWrite">>

OperationFields == <<"Requests", "Transmissions", "Timeouts", "BytesSent",
                     "BytesReceived", "TotalQueueTime", "TotalResponseTime",
                     "TotalExecutionTime">>

TransportFields == <<"SourcePort", "BindCount", "ConnectCount", "ConnectTime",
                     "IdleTime", "RPCSends", "RPCReceives", "BadTransactionIDs",
                     "RequestUtilization", "BacklogUtilization", "MaxSlotsUsed",
                     "SendingQueueUtilization", "PendingQueueUtilization">>

Range(f) == {f[k] : k \in DOMAIN f}

\* the struct whose k-th declared field holds elements[k]
Struct(names, elements) ==
    [f \in Range(names) |-> elements[CHOOSE k \in DOMAIN names : names[k] = f]]

ZeroStruct(names) == [f \in Range(names) |-> "0"]

\* a nil *Statistics
NoStatistics == [nil |-> TRUE]

NewStatistics ==
    [Age |-> "0",
     Byte |-> ZeroStruct(ByteFields),
     Event |-> ZeroStruct(EventFields),
     Operation |-> [n \in {} |-> ZeroStruct(OperationFields)],
     Transport |-> ZeroStruct(TransportFields)]

\* no header is being handled
NoMount == [nil |-> TRUE]

(***************************************************************************)
(* Parse, lines 131-135: the line is a mount header that gets a record.    *)
(***************************************************************************)
IsDevice(fields) == Len(fields) > 0 /\ fields[1] = "device"

\* mutant: the version of the statistics is not looked at
AcceptsHeaderAnyVersion(fields) ==
    /\ IsDevice(fields)
    /\ Len(fields) = 9
    /\ fields[8] \in {"nfs", "nfs4"}

AcceptsHeader(fields) ==
    /\ IsDevice(fields)
    /\ Len(fields) = 9
    /\ fields[8] \in {"nfs", "nfs4"}
    /\ fields[9] = "statvers=1.1"

\* mutant: the mount point is taken one token early
NewMountOffByOne(fields) ==
    [Device |-> fields[2],
     Mountpoint |-> fields[4],
     Statistics |-> NoStatistics,
     Version |-> IF fields[8] = "nfs4" THEN 4 ELSE 3]

\* Parse, lines 137-148
NewMount(fields) ==
    [Device |-> fields[2],
     Mountpoint |-> fields[5],
     Statistics |-> NoStatistics,
     Version |-> IF fields[8] = "nfs4" THEN 4 ELSE 3]

\* mutant: the record is put in front of the pile
AppendMountInFront(mounts, mount, st) ==
    <<[mount EXCEPT !.Statistics = st]>> \o mounts

\* mutant: the record is appended without its statistics
AppendMountBare(mounts, mount, st) == Append(mounts, mount)

\* Parse, lines 155-158: attach the statistics and add the record to the pile
AppendMount(mounts, mount, st) ==
    Append(mounts, [mount EXCEPT !.Statistics = st])

(***************************************************************************)
(* bufio.Scanner.Scan over the reader.  While the scanner is open a call   *)
(* delivers the next line, meets the end of the input, or meets a read     *)
(* error; afterwards every call returns false.                             *)
(***************************************************************************)
ScanOutcomes ==
    IF scanner.state # "open"
    THEN {"false"}
    ELSE (IF scanner.pos < Len(input) THEN {"line"} ELSE {"eof"}) \cup {"error"}

\* mutant: Scan hands out a line without moving past it
AfterScanPeek(o) ==
    CASE o = "eof"   -> [scanner EXCEPT !.state = "eof"]
      [] o = "error" -> [scanner EXCEPT !.state = "err"]
      [] OTHER       -> scanner

AfterScan(o) ==
    CASE o = "line"  -> [scanner EXCEPT !.pos = @ + 1]
      [] o = "eof"   -> [scanner EXCEPT !.state = "eof"]
      [] o = "error" -> [scanner EXCEPT !.state = "err"]
      [] OTHER       -> scanner


\* scanner.Err() of a scanner
ScannerErr(sc) == IF sc.state = "err" THEN "err" ELSE "nil"

\* mutant: the per-op marker is not recognised
EndsStatisticsOnEmptyOnly(fields) == Len(fields) = 0

\* mutant: a bytes: line of the wrong length leaves the loop
EndsStatisticsOnBadBytes(fields) ==
    \/ Len(fields) = 0
    \/ fields[1] = "per-op"
    \/ (fields[1] = "bytes:" /\ Len(fields) # 9)

(***************************************************************************)
(* parseStatistics, lines 181-184: the line that ends the block.           *)
(***************************************************************************)
EndsStatistics(fields) == Len(fields) = 0 \/ fields[1] = "per-op"

\* parseStatistics, lines 189 and 248: an index past the end of fields
StatisticsPanics(fields) ==
    /\ fields[1] \in {"age:", "xprt:"}
    /\ Len(fields) < 2

\* mutant: the transport name is not looked at
TransportAppliesAnyTransport(fields) == Len(fields) = 15

\* parseStatistics, lines 248-251: the xprt: line that is parsed
TransportApplies(fields) == fields[2] = "tcp" /\ Len(fields) = 15

\* parseStatistics, lines 187-270: the switch on fields[0]
ApplyStatistic(st, fields) ==
    CASE fields[1] = "age:" ->
            [st EXCEPT !.Age = ParseUint(fields[2])]
      [] fields[1] = "bytes:" ->
            IF Len(fields) # 9 THEN st
            ELSE [st EXCEPT !.Byte = Struct(ByteFields, makeUint64(Tail(fields)))]
      [] fields[1] = "events:" ->
            IF Len(fields) # 28 THEN st
            ELSE [st EXCEPT !.Event = Struct(EventFields, makeUint64(Tail(fields)))]
      [] fields[1] = "xprt:" ->
            IF ~TransportApplies(fields) THEN st
            ELSE [st EXCEPT !.Transport =
                      Struct(TransportFields, makeUint64(Tail(Tail(fields))))]
      [] OTHER -> st

(***************************************************************************)
(* parseOperations, lines 289-306.                                         *)
(***************************************************************************)
\* mutant: a line that is not a row of nine tokens ends the table
EndsOperationsOnMalformed(fields) == Len(fields) # 9 \/ fields[1] = "device"

EndsOperations(fields) == Len(fields) = 0 \/ fields[1] = "device"

IsOperationRow(fields) == Len(fields) = 9

\* mutant: an operation already in the map is kept
StoreOperationOnce(ops, fields) ==
    LET opName == TrimSuffix(fields[1])
        counters == Struct(OperationFields, makeUint64(Tail(fields)))
    IN  [n \in DOMAIN ops \cup {opName} |->
            IF n \in DOMAIN ops THEN ops[n] ELSE counters]

StoreOperation(ops, fields) ==
    LET opName == TrimSuffix(fields[1])
        counters == Struct(OperationFields, makeUint64(Tail(fields)))
    IN  [n \in DOMAIN ops \cup {opName} |->
            IF n = opName THEN counters ELSE ops[n]]

(***************************************************************************)
(* The lines of the inputs explored: the kernel's mountstats lines (a tab  *)
(* before each line of a block) and malformed variants of them.            *)
(***************************************************************************)
HdrNfs == "device 192.168.1.1:/export mounted on /mnt with fstype nfs statvers=1.1"
HdrNfs4 == "device srv:/home mounted on /home with fstype nfs4 statvers=1.1"
HdrExt == "device /dev/sdb1 mounted on /boot with fstype ext2"
HdrOld == "device srv:/old mounted on /old with fstype nfs statvers=1.0"
HdrFs == "device none mounted on /x with fstype ext4 statvers=1.1"
Blank == ""
Spaces == " \t"
PerOp == "\tper-op statistics"
AgeLine == "\tage:\t12345"
AgeNone == "\tage:"
AgeBad == "\tage:\tsoon"
BytesLine == "\tbytes:\t1 2 3 4 5 6 7 8"
BytesShort == "\tbytes:\t1 2 3 4 5 6 7"
BytesOdd == "\tbytes:\t11 x7 -5 18446744073709551616 18446744073709551615 007 99999999999999999999x 8"
EventsLine == "\tevents:\t1 2 3 4 5 6 7 8 9 10 11 12 13 14 15 16 17 18 19 20 21 22 23 24 25 26 27"
XprtTcp == "\txprt:\ttcp 800 1 1 0 0 10 10 0 0 0 1 0 4"
XprtShort == "\txprt:\ttcp 800 1 1 0 0 10 10 0 0 0 1 0"
XprtUdp == "\txprt:\tudp 800 1 1 0 0 10 10 0 0 0 1 0 4"
XprtNone == "\txprt:"
OpRead == "\tREAD: 10 10 0 100 200 1 2 3"
OpReadAgain == "\tREAD: 20 21 1 300 400 5 6 7"
OpReadBare == "\tREAD 30 31 2 500 600 8 9 4"
OpWrite == "\tWRITE: 4 4 0 50 60 1 1 1"
OpShort == "\tREAD: 99 99 9 900 900 9 9"
OpOdd == "\tGETATTR: 5 n/a -1 18446744073709551616 0 1 2 3"

\* any mix of headers, boundaries and block lines
StructLines == {HdrNfs, HdrNfs4, HdrExt, Blank, PerOp, AgeLine, OpRead}

\* headers that get no record, among accepted ones
RejectLines == {HdrNfs, HdrOld, HdrFs, AgeLine, Blank}

\* the statistics block of one mount
StatLines == {AgeLine, AgeNone, AgeBad, BytesLine, BytesShort, BytesOdd,
              EventsLine, XprtTcp, XprtShort, XprtUdp, XprtNone, PerOp, Blank}

\* the operations table of one mount
OpLines == {OpRead, OpReadAgain, OpReadBare, OpWrite, OpShort, OpOdd, Blank,
            Spaces, HdrNfs4}

\* the end-to-end example of the specification, and the same with the
\* row introduced by the per-op marker or by an empty line
Example == <<HdrNfs, AgeLine, BytesLine, EventsLine, XprtShort, OpRead>>
ExampleMarked == <<HdrNfs, AgeLine, BytesLine, EventsLine, XprtShort, PerOp, OpRead>>
ExampleSpaced == <<HdrNfs, AgeLine, BytesLine, EventsLine, XprtShort, Blank, OpRead>>

\* every line of the inputs
Lines == StructLines \cup RejectLines \cup StatLines \cup OpLines

\* strings.Fields of each line, computed once for all the inputs
LineFields == [l \in Lines |-> Fields(l)]

\* scanner.Bytes() after a Scan that returned true, split by strings.Fields
ScannedFields == LineFields[input[scanner.pos + 1]]

SeqsUpTo(S, n) == UNION {[1..k -> S] : k \in 0..n}

Inputs ==
    SeqsUpTo(StructLines, MaxLines)
    \cup SeqsUpTo(RejectLines, MaxLines)
    \cup {<<HdrNfs>> \o b : b \in SeqsUpTo(StatLines, MaxBlock)}
    \cup {<<HdrNfs, PerOp>> \o r : r \in SeqsUpTo(OpLines, MaxRows)}
    \cup {Example, ExampleMarked, ExampleSpaced}

(***************************************************************************)
(* Parse is called on a fresh reader.                                      *)
(***************************************************************************)
Init ==
    /\ input \in Inputs
    /\ scanner = [pos |-> 0, state |-> "open"]
    /\ pc = "Parse"
    /\ nfsMounts = <<>>
    /\ nfsMount = NoMount
    /\ statistics = NoStatistics
    /\ retMounts = <<>>
    /\ retErr = "nil"
    /\ readBy = <<>>

(***************************************************************************)
(* One iteration of the loop of Parse (lines 120-160), or its return       *)
(* (line 162) when Scan returns false.                                     *)
(***************************************************************************)
ParseLine ==
    /\ pc = "Parse"
    /\ \E o \in ScanOutcomes :
        /\ scanner' = AfterScan(o)
        /\ IF o = "line"
           THEN LET fields == ScannedFields
                IN  /\ readBy' = Append(readBy, [loop |-> "Parse", fields |-> fields])
                    /\ IF AcceptsHeader(fields)
                       THEN /\ nfsMount' = NewMount(fields)
                            /\ statistics' = NewStatistics
                            /\ pc' = "parseStatistics"
                       ELSE UNCHANGED <<nfsMount, statistics, pc>>
                    /\ UNCHANGED <<nfsMounts, retMounts, retErr>>
           ELSE /\ pc' = "done"
                /\ retMounts' = nfsMounts
                /\ retErr' = ScannerErr(scanner')
                /\ UNCHANGED <<nfsMounts, nfsMount, statistics, readBy>>
    /\ UNCHANGED input

(***************************************************************************)
(* One iteration of the loop of parseStatistics (lines 175-271).  The      *)
(* loop is left for parseOperations on an empty line, on the per-op        *)
(* marker and when Scan returns false.  fields[1] of a one-token age: or   *)
(* xprt: line is an index out of range: the program panics.                *)
(***************************************************************************)
StatisticsLine ==
    /\ pc = "parseStatistics"
    /\ \E o \in ScanOutcomes :
        /\ scanner' = AfterScan(o)
        /\ IF o = "line"
           THEN LET fields == ScannedFields
                IN  /\ readBy' = Append(readBy, [loop |-> "parseStatistics", fields |-> fields])
                    /\ IF EndsStatistics(fields)
                       THEN /\ pc' = "parseOperations"
                            /\ UNCHANGED statistics
                       ELSE IF StatisticsPanics(fields)
                       THEN /\ pc' = "panic"
                            /\ UNCHANGED statistics
                       ELSE /\ statistics' = ApplyStatistic(statistics, fields)
                            /\ UNCHANGED pc
           ELSE /\ pc' = "parseOperations"
                /\ UNCHANGED <<statistics, readBy>>
    /\ UNCHANGED <<input, nfsMounts, nfsMount, retMounts, retErr>>

(***************************************************************************)
(* One iteration of the loop of parseOperations (lines 285-307).  When the *)
(* loop is left, parseStatistics returns (lines 275-280) and Parse either  *)
(* returns nil and the error (lines 152-154) or attaches the statistics    *)
(* and appends the record (lines 155-158).                                 *)
(***************************************************************************)
OperationsLine ==
    /\ pc = "parseOperations"
    /\ \E o \in ScanOutcomes :
        /\ scanner' = AfterScan(o)
        /\ LET fields == ScannedFields
               leaves == o # "line" \/ EndsOperations(fields)
           IN  /\ readBy' = IF o = "line"
                            THEN Append(readBy, [loop |-> "parseOperations",
                                                 fields |-> fields])
                            ELSE readBy
               /\ IF ~leaves
                  THEN /\ statistics' =
                            IF IsOperationRow(fields)
                            THEN [statistics EXCEPT
                                    !.Operation = StoreOperation(@, fields)]
                            ELSE statistics
                       /\ UNCHANGED <<pc, nfsMounts, nfsMount, retMounts, retErr>>
                  ELSE IF ScannerErr(scanner') # "nil"
                  THEN /\ pc' = "done"
                       /\ retMounts' = <<>>
                       /\ retErr' = ScannerErr(scanner')
                       /\ UNCHANGED <<nfsMounts, nfsMount, statistics>>
                  ELSE /\ nfsMounts' = AppendMount(nfsMounts, nfsMount, statistics)
                       /\ nfsMount' = NoMount
                       /\ statistics' = NoStatistics
                       /\ pc' = "Parse"
                       /\ UNCHANGED <<retMounts, retErr>>
    /\ UNCHANGED input

Next == ParseLine \/ StatisticsLine \/ OperationsLine

Spec == Init /\ [][Next]_vars

(***************************************************************************)
(* Vocabulary of the properties.                                           *)
(***************************************************************************)
\* the lines delivered so far; line i was split into Tok(i) by Loop(i)
Last == Len(readBy)
Tok(i) == readBy[i].fields
Loop(i) == readBy[i].loop

\* Parse returned without an error
Returned == pc = "done" /\ retErr = "nil"

\* the header predicate of the specification
HeaderLine(i) ==
    /\ Len(Tok(i)) = 9
    /\ Tok(i)[1] = "device"
    /\ Tok(i)[8] \in {"nfs", "nfs4"}
    /\ Tok(i)[9] = "statvers=1.1"

DeviceLine(i) == Len(Tok(i)) > 0 /\ Tok(i)[1] = "device"

\* C1 (as claimed): a header line that ends an operations table is examined
\* by the top-level scan as well, so that on return there is one record for
\* every header line read by the top-level scan or by the operations loop.
C1_DeviceLineReexamined ==
    Returned =>
        Len(retMounts) =
            Cardinality({i \in 1..Last :
                HeaderLine(i) /\ Loop(i) \in {"Parse", "parseOperations"}})

\* C2 (as claimed): on return the number of records equals the number of
\* input lines that satisfy the header predicate.
C2_RecordPerHeader ==
    Returned =>
        /\ Last = Len(input)
        /\ Len(retMounts) = Cardinality({i \in 1..Last : HeaderLine(i)})

\* C3 (as claimed): when Parse returns a read error it returns all records
\* assembled before the error with it.
C3_PartialResultsKept ==
    (pc = "done" /\ retErr # "nil") => retMounts = nfsMounts

\* the single record returned for the example: version, age, first byte counter
ExampleRecord ==
    /\ Len(retMounts) = 1
    /\ retMounts[1].Device = "192.168.1.1:/export"
    /\ retMounts[1].Mountpoint = "/mnt"
    /\ retMounts[1].Version = 3
    /\ retMounts[1].Statistics.Age = "12345"
    /\ retMounts[1].Statistics.Byte.NormalReadBytes = "1"

ExampleHasRead ==
    /\ DOMAIN retMounts[1].Statistics.Operation = {"READ"}
    /\ retMounts[1].Statistics.Operation["READ"].Requests = "10"

\* C4 (as claimed): on the example, whose READ row follows the xprt: line
\* directly, the record has the operation READ with 10 requests.
C4_ExampleRowRecorded ==
    (Returned /\ input = Example) => (ExampleRecord /\ ExampleHasRead)

\* C4 (amended): on the example the record has version 3, age 12345 and
\* NormalReadBytes 1 and no operation at all, the READ row being read as a
\* line of the statistics block; READ with 10 requests is recorded when the
\* per-op marker or an empty line stands before the row.
C4_ExampleRowNeedsMarker ==
    Returned =>
        /\ input = Example =>
              (ExampleRecord /\ DOMAIN retMounts[1].Statistics.Operation = {})
        /\ input \in {ExampleMarked, ExampleSpaced} =>
              (ExampleRecord /\ ExampleHasRead)

C4_Witness ==
    /\ Returned
    /\ input = Example
    /\ Last = 6
    /\ Loop(6) = "parseStatistics"
    /\ Tok(6)[1] = "READ:"

\* the device line before line i, 0 if there is none
PrevDevice(i) ==
    IF \E j \in 1..(i - 1) : DeviceLine(j)
    THEN CHOOSE j \in 1..(i - 1) :
            DeviceLine(j) /\ \A k \in (j + 1)..(i - 1) : ~DeviceLine(k)
    ELSE 0

\* line i lies after a rejected device line, with no device line in between
RejectedBlockLine(i) == PrevDevice(i) # 0 /\ ~HeaderLine(PrevDevice(i))

\* C5 (as claimed): a rejected device line gets no record; a line that
\* follows it, up to and including the next device line, changes the
\* statistics of no record, and when it is a matching header it starts its
\* record.
C5_RejectedBlockIgnored ==
    [][Last' = Last + 1 =>
        /\ (pc = "Parse" /\ (DeviceLine(Last) /\ ~HeaderLine(Last))') =>
              UNCHANGED <<pc, nfsMounts, nfsMount>>
        /\ (RejectedBlockLine(Last) /\ HeaderLine(Last))' =>
              (pc = "Parse" /\ pc' = "parseStatistics")
        /\ (RejectedBlockLine(Last) /\ ~HeaderLine(Last))' =>
              /\ SubSeq(nfsMounts', 1, Len(nfsMounts)) = nfsMounts
              /\ \/ statistics' = statistics
                 \/ /\ Len(nfsMounts') = Len(nfsMounts) + 1
                    /\ nfsMounts'[Len(nfsMounts')].Statistics = statistics
      ]_vars

\* C6 (as claimed): no malformed line aborts the parse; without a read
\* error Parse never panics and returns a nil error.
C6_NoAbort ==
    /\ pc # "panic"
    /\ (pc = "done" /\ scanner.state # "err") => retErr = "nil"

(***************************************************************************)
(* What the specification says a counter token is worth.                   *)
(***************************************************************************)
IsDigit(t, k) == SubSeq(t, k, k) \in {"0", "1", "2", "3", "4", "5", "6", "7", "8", "9"}

AllDigits(t) == \A k \in 1..Len(t) : IsDigit(t, k)

\* the numeral of a string of digits: no leading zeros, "0" for zero
Canon(d) ==
    IF \A k \in 1..Len(d) : SubSeq(d, k, k) = "0"
    THEN "0"
    ELSE LET z == CHOOSE m \in 0..Len(d) :
                    /\ \A k \in 1..m : SubSeq(d, k, k) = "0"
                    /\ SubSeq(d, m + 1, m + 1) # "0"
         IN  SubSeq(d, z + 1, Len(d))

ExceedsUint64(d) == NumLess("18446744073709551615", Canon(d))

ValidUint64(t) == AllDigits(t) /\ ~ExceedsUint64(t)

\* zero for every token that is no valid unsigned 64-bit decimal
ClaimedValue(t) == IF ValidUint64(t) THEN Canon(t) ELSE "0"

\* the loop has just handled line Last and goes on to its next line
JustRead(loop) == Last > 0 /\ Loop(Last) = loop /\ pc = loop

\* every counter of the line just handled holds Value of its token
CountersHold(Value(_)) ==
    LET t == Tok(Last)
    IN  /\ (JustRead("parseStatistics") /\ t[1] = "age:") =>
              statistics.Age = Value(t[2])
        /\ (JustRead("parseStatistics") /\ t[1] = "bytes:" /\ Len(t) = 9) =>
              \A k \in 1..8 : statistics.Byte[ByteFields[k]] = Value(t[k + 1])
        /\ (JustRead("parseStatistics") /\ t[1] = "events:" /\ Len(t) = 28) =>
              \A k \in 1..27 : statistics.Event[EventFields[k]] = Value(t[k + 1])
        /\ (JustRead("parseStatistics") /\ t[1] = "xprt:" /\ Len(t) = 15
                /\ t[2] = "tcp") =>
              \A k \in 1..13 :
                  statistics.Transport[TransportFields[k]] = Value(t[k + 2])
        /\ (JustRead("parseOperations") /\ Len(t) = 9) =>
              \E n \in DOMAIN statistics.Operation :
                  \A k \in 1..8 :
                      statistics.Operation[n][OperationFields[k]] = Value(t[k + 1])

\* C7 (as claimed): a counter token that is no valid unsigned 64-bit decimal
\* gives its field the value 0, the other fields of the line keep their
\* parsed values and the loop goes on.
C7_InvalidTokenIsZero == CountersHold(ClaimedValue)

(***************************************************************************)
(* The mount being parsed: its header, and the lines that by the           *)
(* specification form its statistics block and its operations table.       *)
(***************************************************************************)
InMount == pc \in {"parseStatistics", "parseOperations"}

CurHeader ==
    CHOOSE h \in 1..Last :
        Loop(h) = "Parse" /\ \A j \in (h + 1)..Last : Loop(j) # "Parse"

LastIn(S) == CHOOSE j \in S : \A k \in S : k <= j

\* the rows read into the table so far
Rows ==
    {j \in (CurHeader + 1)..Last :
        Loop(j) = "parseOperations" /\ Len(Tok(j)) = 9}

\* token[0] of row j without its trailing colon
OpName(j) ==
    LET t == Tok(j)[1]
    IN  IF SubSeq(t, Len(t), Len(t)) = ":" THEN SubSeq(t, 1, Len(t) - 1) ELSE t

RowCounters(j) ==
    [Requests |-> ParseUint(Tok(j)[2]),
     Transmissions |-> ParseUint(Tok(j)[3]),
     Timeouts |-> ParseUint(Tok(j)[4]),
     BytesSent |-> ParseUint(Tok(j)[5]),
     BytesReceived |-> ParseUint(Tok(j)[6]),
     TotalQueueTime |-> ParseUint(Tok(j)[7]),
     TotalResponseTime |-> ParseUint(Tok(j)[8]),
     TotalExecutionTime |-> ParseUint(Tok(j)[9])]

\* C8: while the operations table of a mount is read, the map holds exactly
\* one entry for each operation name among the rows read, with the counters
\* of the last row of that name.
C8_LastRowWins ==
    pc = "parseOperations" =>
        /\ DOMAIN statistics.Operation = {OpName(j) : j \in Rows}
        /\ \A n \in DOMAIN statistics.Operation :
              statistics.Operation[n] =
                  RowCounters(LastIn({j \in Rows : OpName(j) = n}))

C8_Witness ==
    /\ pc = "parseOperations"
    /\ \E i, j, k \in Rows :
          /\ i < j /\ OpName(i) = "READ" /\ OpName(j) = "READ"
          /\ RowCounters(i) # RowCounters(j)
          /\ j = LastIn({m \in Rows : OpName(m) = "READ"})
          /\ OpName(k) = "WRITE"
          /\ statistics.Operation["READ"].Requests = RowCounters(j).Requests
          /\ statistics.Operation["WRITE"].Requests = "4"

\* the lines after the header up to the first empty line or per-op marker
StatBlock ==
    {j \in (CurHeader + 1)..Last :
        \A k \in (CurHeader + 1)..j : ~(Len(Tok(k)) = 0 \/ Tok(k)[1] = "per-op")}

AgeLines == {j \in StatBlock : Tok(j)[1] = "age:"}
BytesLines == {j \in StatBlock : Tok(j)[1] = "bytes:" /\ Len(Tok(j)) = 9}
ShortBytesLines == {j \in StatBlock : Tok(j)[1] = "bytes:" /\ Len(Tok(j)) < 9}
EventsLines == {j \in StatBlock : Tok(j)[1] = "events:" /\ Len(Tok(j)) = 28}
TcpLines ==
    {j \in StatBlock : Tok(j)[1] = "xprt:" /\ Len(Tok(j)) = 15 /\ Tok(j)[2] = "tcp"}
OtherXprtLines ==
    {j \in StatBlock : Tok(j)[1] = "xprt:" /\ Len(Tok(j)) >= 2 /\ Tok(j)[2] # "tcp"}

\* counters names of the statistics hold the tokens of line j from token
\* number first on
HoldsLine(counters, names, j, first) ==
    \A k \in 1..Len(names) :
        counters[names[k]] = ParseUint(Tok(j)[first + k - 1])

AllZero(counters, names) == \A k \in 1..Len(names) : counters[names[k]] = "0"

AgeApplied ==
    IF AgeLines = {} THEN statistics.Age = "0"
    ELSE statistics.Age = ParseUint(Tok(LastIn(AgeLines))[2])

BytesApplied ==
    IF BytesLines = {} THEN AllZero(statistics.Byte, ByteFields)
    ELSE HoldsLine(statistics.Byte, ByteFields, LastIn(BytesLines), 2)

EventsApplied ==
    IF EventsLines = {} THEN AllZero(statistics.Event, EventFields)
    ELSE HoldsLine(statistics.Event, EventFields, LastIn(EventsLines), 2)

TransportApplied ==
    IF TcpLines = {} THEN AllZero(statistics.Transport, TransportFields)
    ELSE HoldsLine(statistics.Transport, TransportFields, LastIn(TcpLines), 3)

\* C9: a bytes: line of fewer than 9 tokens leaves the byte counters as they
\* are, all-zero when the block has no bytes: line of 9 tokens, and the
\* block goes on: its age:, events: and xprt: lines are applied.
C9_ShortBytesSkipped ==
    (InMount /\ ShortBytesLines # {}) =>
        (BytesApplied /\ AgeApplied /\ EventsApplied /\ TransportApplied)

C9_Witness ==
    /\ InMount
    /\ BytesLines = {}
    /\ \E i \in ShortBytesLines : \E j \in AgeLines : i < j
    /\ statistics.Age = "12345"
    /\ AllZero(statistics.Byte, ByteFields)

\* C10: an xprt: line whose second token is not tcp leaves the transport
\* counters as they are, all-zero when the block has no tcp line of 15
\* tokens, and the rest of the block is applied.
C10_OtherTransportSkipped ==
    (InMount /\ OtherXprtLines # {}) =>
        (TransportApplied /\ AgeApplied /\ BytesApplied /\ EventsApplied)

C10_Witness ==
    /\ InMount
    /\ TcpLines = {}
    /\ \E i \in OtherXprtLines :
          /\ Len(Tok(i)) = 15
          /\ \E j \in BytesLines : i < j
    /\ statistics.Byte.WritePages = "8"
    /\ AllZero(statistics.Transport, TransportFields)

(***************************************************************************)
(* The records and the header lines they come from.                        *)
(***************************************************************************)
\* the header lines the top-level scan has read, and the k-th of them
ParsedHeaders == {h \in 1..Last : Loop(h) = "Parse" /\ HeaderLine(h)}

HeaderOf(k) ==
    CHOOSE h \in ParsedHeaders : Cardinality({g \in ParsedHeaders : g <= h}) = k

\* the record has the device, the mount point and the version of line h
FromHeader(mount, h) ==
    /\ mount.Device = Tok(h)[2]
    /\ mount.Mountpoint = Tok(h)[5]
    /\ \/ Tok(h)[8] = "nfs4" /\ mount.Version = 4
       \/ Tok(h)[8] = "nfs" /\ mount.Version = 3

\* C11: every record, the one being filled and the ones returned included,
\* has device = token[1], mountpoint = token[4] of the header line that
\* created it, and version 4 for nfs4 and 3 for nfs.
C11_FieldsFromHeader ==
    /\ \A k \in 1..Len(nfsMounts) : FromHeader(nfsMounts[k], HeaderOf(k))
    /\ InMount => FromHeader(nfsMount, CurHeader)
    /\ \A k \in 1..Len(retMounts) :
          FromHeader(retMounts[k], HeaderOf(k)) /\ retMounts[k].Version \in {3, 4}

C11_Witness ==
    /\ Returned
    /\ Len(retMounts) = 2
    /\ retMounts[1].Version = 3 /\ retMounts[1].Mountpoint = "/mnt"
    /\ retMounts[2].Version = 4 /\ retMounts[2].Device = "srv:/home"

\* the header predicate on a line of the input
HeaderText(l) ==
    LET t == LineFields[l]
    IN  /\ Len(t) = 9
        /\ t[1] = "device"
        /\ t[8] \in {"nfs", "nfs4"}
        /\ t[9] = "statvers=1.1"

NoHeaderInInput == \A i \in 1..Len(input) : ~HeaderText(input[i])

\* C12: on an input without a line that satisfies the header predicate, the
\* empty input included, no record is ever made, and when the reader does
\* not fail Parse returns the empty sequence and a nil error.
C12_NoHeaderNoRecord ==
    NoHeaderInInput =>
        /\ pc \in {"Parse", "done"}
        /\ nfsMounts = <<>>
        /\ (pc = "done" /\ scanner.state # "err") =>
              (retMounts = <<>> /\ retErr = "nil" /\ Last = Len(input))

C12_Witness ==
    /\ NoHeaderInInput
    /\ Returned
    /\ \E i \in 1..Last : DeviceLine(i) /\ Len(Tok(i)) = 9
    /\ retMounts = <<>>

(***************************************************************************)
(* The phases of the parser: ScanningForHeader is the loop of Parse,       *)
(* ParsingStatBlock the loop of parseStatistics, ParsingOperations the     *)
(* loop of parseOperations.                                                *)
(***************************************************************************)
\* this step took a line, or found the reader at its end or failed
TookLine == Last' = Last + 1

ScanFailed == Last' = Last

\* the line this step took ends a statistics block
BlockEnder == Len(Tok(Last)') = 0 \/ Tok(Last)'[1] = "per-op"

\* C13: the statistics block is entered only from the scan for a header and
\* on an accepted header; the operations table is entered only from the
\* statistics block, and it is entered whenever the block ends, on per-op,
\* on a blank line or at the end of the stream; the scan for a header is
\* resumed only from the operations table; Parse returns only from the scan
\* for a header or from the operations table.
C13_PhaseOrder ==
    [][/\ (pc' = "parseStatistics" /\ pc # "parseStatistics") =>
              (pc = "Parse" /\ TookLine /\ HeaderLine(Last)')
       /\ (pc' = "parseOperations" /\ pc # "parseOperations") =>
              pc = "parseStatistics"
       /\ (pc = "parseStatistics" /\ (ScanFailed \/ (TookLine /\ BlockEnder))) =>
              pc' = "parseOperations"
       /\ (pc' = "Parse" /\ pc # "Parse") => pc = "parseOperations"
       /\ (pc = "Parse" /\ TookLine /\ HeaderLine(Last)') =>
              pc' = "parseStatistics"
       /\ pc' = "done" => pc \in {"Parse", "parseOperations"}]_vars

\* the operations table was entered at the end of the stream
C13_Witness ==
    /\ pc = "parseOperations"
    /\ scanner.state = "eof"
    /\ Last > CurHeader
    /\ Len(nfsMounts) = 1

(***************************************************************************)
(* The lines of the operations table of the mount being filled.            *)
(***************************************************************************)
\* the line that ended the statistics block of the mount being filled
BlockEnd ==
    CHOOSE e \in CurHeader + 1..Last :
        /\ Len(Tok(e)) = 0 \/ Tok(e)[1] = "per-op"
        /\ \A k \in CurHeader + 1..e - 1 :
              ~(Len(Tok(k)) = 0 \/ Tok(k)[1] = "per-op")

TableLines == BlockEnd + 1..Last

Malformed(j) ==
    /\ Len(Tok(j)) > 0
    /\ Tok(j)[1] # "device"
    /\ Len(Tok(j)) # 9

WellFormed(j) == Len(Tok(j)) = 9 /\ Tok(j)[1] # "device"

\* C14: a line of the operations table that is not blank, does not start
\* with device and has not nine tokens leaves the parser in the table, and
\* the map holds exactly the rows of nine tokens of the table, those after
\* such a line included, each name with the counters of its last row.
C14_MalformedRowSkipped ==
    /\ (Last > 0 /\ Loop(Last) = "parseOperations" /\ Malformed(Last)
          /\ scanner.state = "open") => pc = "parseOperations"
    /\ (pc = "parseOperations" /\ scanner.state = "open"
          /\ \E m \in TableLines : Malformed(m)) =>
          /\ DOMAIN statistics.Operation =
                {OpName(j) : j \in {t \in TableLines : WellFormed(t)}}
          /\ \A j \in {t \in TableLines : WellFormed(t)} :
                (\A l \in TableLines :
                    (l > j /\ WellFormed(l)) =>
                        OpName(l) # OpName(j)) =>
                    statistics.Operation[OpName(j)] =
                        RowCounters(j)

C14_Witness ==
    /\ pc = "parseOperations"
    /\ scanner.state = "open"
    /\ \E m \in TableLines : \E j \in TableLines :
          /\ Malformed(m) /\ WellFormed(j) /\ m < j
          /\ OpName(j) \in DOMAIN statistics.Operation

(***************************************************************************)
(* Termination: a measure that every step of the parser decreases.         *)
(***************************************************************************)
\* the loops still to run through before Parse is over: parseOperations is
\* called after the loop of parseStatistics, which is called from the loop
\* of Parse
Rank(p) ==
    CASE p = "parseStatistics" -> 3
      [] p = "parseOperations" -> 2
      [] p = "Parse"           -> 1
      [] OTHER                 -> 0

Measure == 4 * (Len(input) - scanner.pos) + Rank(pc)

\* C15: every step of Parse decreases a measure that is never negative, so
\* Parse ends on every finite input; the cursor only moves forward, one
\* line at a time, and the line it passes is read by the one loop in
\* control and never again; once Scan has returned false every further
\* step leaves a loop without reading, and a return at the end of the
\* input has read every line.
C15_TerminatesOnePass ==
    [][/\ Measure' < Measure
       /\ Measure' >= 0
       /\ scanner'.pos \in {scanner.pos, scanner.pos + 1}
       /\ Len(readBy') = scanner'.pos
       /\ SubSeq(readBy', 1, Len(readBy)) = readBy
       /\ TookLine =>
             /\ readBy'[Last'].loop = pc
             /\ readBy'[Last'].fields = LineFields[input[Last']]
       /\ scanner.state # "open" => (ScanFailed /\ Rank(pc') < Rank(pc))
       /\ (pc' = "done" /\ scanner'.state = "eof") => Last' = Len(input)]_vars

\* a run that went through the three loops and returned at the end of input
C15_Witness ==
    /\ pc = "done"
    /\ scanner.state = "eof"
    /\ Last = Len(input)
    /\ \E i \in 1..Last : Loop(i) = "parseStatistics"
    /\ \E i \in 1..Last : Loop(i) = "parseOperations"
    /\ Len(retMounts) = 1

\* C16: the pile of records only grows at its end, one record at a time;
\* the record added is the one of the header read last by the top-level
\* scan, which lies after the headers of all records before it; a return
\* without error hands out the pile as it is.
C16_AppendOnlyInOrder ==
    [][/\ SubSeq(nfsMounts', 1, Len(nfsMounts)) = nfsMounts
       /\ Len(nfsMounts') \in {Len(nfsMounts), Len(nfsMounts) + 1}
       /\ Len(nfsMounts') > Len(nfsMounts) =>
             /\ pc = "parseOperations"
             /\ FromHeader(nfsMounts'[Len(nfsMounts')], CurHeader)
             /\ CurHeader = HeaderOf(Len(nfsMounts'))
             /\ \A k \in 1..Len(nfsMounts) : HeaderOf(k) < CurHeader
       /\ (pc' = "done" /\ retErr' = "nil") => retMounts' = nfsMounts]_vars

C16_Witness ==
    /\ Returned
    /\ Len(retMounts) = 2
    /\ retMounts[1].Device = "srv:/home"
    /\ retMounts[2].Device = "192.168.1.1:/export"
    /\ HeaderOf(1) < HeaderOf(2)

\* C17 (as claimed): once a line that starts with device has been read after
\* the header of the mount being filled, no line read later changes the
\* statistics of that mount, and no record already in the pile changes.
C17_Isolation ==
    [][(InMount /\ TookLine /\ \E d \in CurHeader + 1..Last : DeviceLine(d)) =>
          /\ SubSeq(nfsMounts', 1, Len(nfsMounts)) = nfsMounts
          /\ pc' \in {"parseStatistics", "parseOperations"} =>
                statistics' = statistics
          /\ Len(nfsMounts') > Len(nfsMounts) =>
                nfsMounts'[Len(nfsMounts')].Statistics = statistics]_vars

\* C18: every record in the pile and every record returned has statistics
\* attached, with an operations map that was made; the mount being filled
\* has its statistics from the moment its header is accepted.
HasStatistics(mount) ==
    /\ mount.Statistics # NoStatistics
    /\ "Operation" \in DOMAIN mount.Statistics
    /\ \A n \in DOMAIN mount.Statistics.Operation :
          DOMAIN mount.Statistics.Operation[n] = Range(OperationFields)

C18_StatisticsAttached ==
    /\ \A k \in 1..Len(nfsMounts) : HasStatistics(nfsMounts[k])
    /\ \A k \in 1..Len(retMounts) : HasStatistics(retMounts[k])
    /\ InMount => (statistics # NoStatistics /\ "Operation" \in DOMAIN statistics)

\* the header is the last line of the input
C18_Witness ==
    /\ Returned
    /\ Last = Len(input)
    /\ Last > 0
    /\ HeaderLine(Last) /\ Loop(Last) = "Parse"
    /\ retMounts[Len(retMounts)].Statistics = NewStatistics

====
